---- MODULE Spec2Model ----
(***************************************************************************)
(* State-machine model of the operation orchestrator of the multi-agent    *)
(* inspection system (MultiagentSystem/src/operation): the operation       *)
(* controller, the exploration driver thread, the inspection driver        *)
(* thread, the event bus, the shared queue and registry, and the two       *)
(* agents (Drone, RobotDogSimulator) as far as the drivers observe them.   *)
(*                                                                         *)
(* Coordinates are integers on a grid of GridPerMetre cells per metre, so  *)
(* that "distance < DRONE_VISIBILITY" is compared on squared distances.    *)
(* time() returns a logical clock.  Logical time advances when the         *)
(* exploration driver reads the finish time of a phase, the one reading    *)
(* another thread's reading is compared with; more ticks would only        *)
(* multiply the states without adding an observable order.                 *)
(*                                                                         *)
(* Spec is the operation with an operator who may call at any time and a   *)
(* movement thread that may outlive its join; LiveSpec and EarlySpec fix   *)
(* the operator's protocol and state fairness; LateSpec adds a detection   *)
(* thread that outlives the join of Drone.stop_routine; AnyAgentSpec and   *)
(* AnyAgentLiveSpec add an inspector agent without telemetry; SentinelSpec *)
(* adds a None put on the shared queue; RaceSpec tells apart the read and  *)
(* the store of the inspection driver's registry update.                   *)
(*                                                                         *)
(* The components the drivers are handed are also modelled on their own,   *)
(* each under a specification that draws its inputs from bounded sets:     *)
(* PlannerSpec (NearestNeighborPlanner), IlpSpec (ILPPlanner), AgentSpec   *)
(* (RobotDogSimulator and Drone under a client that starts and stops them  *)
(* at any moment), TelemetrySpec (the DroneTelemetry listener) and         *)
(* FramesSpec (AFrameConsumer.enqueue against the consumer thread).        *)
(***************************************************************************)
EXTENDS Integers, Sequences, FiniteSets, TLC

(* ------------------------------ bounds -------------------------------- *)
\* Largest number of base positions (missions) of an operation.
MaxN == 2
\* Largest number of detections the exploration driver accepts in all.
MaxDetections == 2
\* Grid cells per metre.
GridPerMetre == 2
\* Largest coordinate of a point handed to a path planner.
MaxCoord == 3
\* Longest point list handed to the nearest-neighbour planner.
MaxPlanLen == 3
\* Largest number of calls a client makes on an agent, and longest path it gives.
MaxCalls == 3
MaxWaypoints == 2
\* Longest payload of a telemetry datagram, in 32-bit words, and largest value of
\* its first word.
MaxPayloadWords == 7
MaxWord == 2
\* Largest number of calls of DroneTelemetry.start().
MaxStarts == 2
\* Largest coordinate and longest point list handed to the exact planner.
MaxIlpCoord == 6
MaxIlpLen == 4
\* Largest maxsize of a frame consumer's queue (COLOR_DETECTION_MAX_QUEUE_SIZE), and
\* number of frames the matcher hands to it.
MaxFrameQueue == 2
MaxFrames == 4

(* --------------------------- program constants ------------------------ *)
PACKET_ID_BATTERY == 1
PACKET_ID_POSE == 2
\* STRUCT_BATTERY.size ("<f") and STRUCT_POSE.size ("<6f"), in bytes.
STRUCT_BATTERY_size == 4
STRUCT_POSE_size == 24
DRONE_VISIBILITY == 1
ROBOT_DOG_MEAN_TEMPERATURE == 25

NOT_STARTED == "NOT_STARTED"
RUNNING == "RUNNING"
FINISHED == "FINISHED"

\* None, for a timestamp that is not set.
None == 0

(* ------------------------------ geometry ------------------------------ *)
\* Relative points the explorer agent may report (grid cells).
RelPoints == {<<0, 0>>, <<1, 0>>, <<2, 0>>}

\* base_positions[i], i = 0..N-1, as loaded from the base-positions file.
BasePosition(i) == <<2 * i, 0>>

Dist2(p, q) == (p[1] - q[1]) * (p[1] - q[1]) + (p[2] - q[2]) * (p[2] - q[2])

\* A proximity test that also rejects a point at exactly DRONE_VISIBILITY.
IsTooCloseInclusive(pts, p) ==
    \E i \in 1..Len(pts) :
        Dist2(pts[i], p) <= (DRONE_VISIBILITY * GridPerMetre) * (DRONE_VISIBILITY * GridPerMetre)

\* ExplorationController._is_too_close
IsTooClose(pts, p) ==
    \E i \in 1..Len(pts) :
        Dist2(pts[i], p) < (DRONE_VISIBILITY * GridPerMetre) * (DRONE_VISIBILITY * GridPerMetre)

(* --------------------------- path planner ----------------------------- *)
\* A choice of the next point that ignores the distances: the first one listed.
FirstIndex(current, remaining) == 1

\* min(remaining, key = distance to current): the first element of least distance.
NearestIndex(current, remaining) ==
    CHOOSE i \in 1..Len(remaining) :
        /\ \A j \in 1..Len(remaining) : Dist2(current, remaining[i]) <= Dist2(current, remaining[j])
        /\ \A j \in 1..(i - 1) : Dist2(current, remaining[j]) > Dist2(current, remaining[i])

\* A removal that drops every point equal to the chosen one.
RemoveAllEqual(s, i) == SelectSeq(s, LAMBDA p : p # s[i])

\* remaining.remove(next_point): the first element equal to it, the one min returned.
RemoveAt(s, i) == SubSeq(s, 1, i - 1) \o SubSeq(s, i + 1, Len(s))

RECURSIVE NearestNeighborLoop(_, _)
NearestNeighborLoop(current, remaining) ==
    IF remaining = <<>> THEN <<>>
    ELSE LET i == NearestIndex(current, remaining)
         IN <<remaining[i]>> \o NearestNeighborLoop(remaining[i], RemoveAt(remaining, i))

\* NearestNeighborPlanner.plan_path
plan_path(start_point, points) ==
    IF points = <<>> THEN <<>> ELSE NearestNeighborLoop(start_point, points)

(* ------------------------------- state -------------------------------- *)
VARIABLES
    n_missions,           \* len(base_positions), fixed at construction
    operation,            \* OperationController: status, start_time, finished_time
    explorer,             \* ExplorationController fields and the position of its thread
    inspector,            \* InspectionController fields and the position of its thread
    points_temperatures,  \* InspectionController.points_temperatures
    queue,                \* the shared Queue(maxsize = N) of point lists
    all_points,           \* the registry: point -> (mission, inspected, detected, inspected time)
    events,               \* OperationEvents: the three threading.Event flags
    drone_active,         \* Drone._active
    dog,                  \* RobotDogSimulator: _running, _waypoints, position, movement threads
    clock,                \* the next value time() returns
    detections,           \* number of detections the exploration driver has accepted
    operator,             \* calls made so far by the operator that follows the protocol
    history,              \* observations of the run, read by no action's guard or effect
    late,                 \* detection thread that outlived its join: mission id of its phase, or -1
    planner,              \* a path planner's call: its arguments, the solver's answer, its result
    telemetry,            \* DroneTelemetry: the stored snapshot and its listener thread
    agent,                \* RobotDogSimulator and Drone under a client of their own, with its log
    pending,              \* locals of an InspectionController._on_point between its read and its write
    frames                \* a frame consumer's queue, the matcher thread inside enqueue, the consumer thread

vars == <<n_missions, operation, explorer, inspector, points_temperatures, queue,
          all_points, events, drone_active, dog, clock, detections, operator, history, late,
          planner, telemetry, agent, pending, frames>>

\* The components the orchestrator's threads never touch while an operation runs
\* under the simulated inspector agent: they are exercised on their own.
units == <<planner, telemetry, agent, pending, frames>>

\* A registry (or temperature map) without entries.
EmptyMap == [p \in {} |-> None]

\* dict[key] = value
MapSet(m, key, value) == [p \in DOMAIN m \cup {key} |-> IF p = key THEN value ELSE m[p]]

(* ----------------------------- event bus ------------------------------ *)
\* An event that is never re-armed: the flag stays as it is.
clear_inspector_done_kept(flag) == flag

\* threading.Event.clear() as called by the three clear_* methods.
clear_start_next_exploration(flag) == FALSE
clear_stop_exploration(flag) == FALSE
clear_inspector_done(flag) == FALSE

(* --------------------------- shared queue ----------------------------- *)
\* A queue one slot short of the number of missions.
QueueMaxSizeShort(n) == n - 1

\* Queue(maxsize = len(base_positions))
QueueMaxSize(n) == n

NoItem == [points |-> <<>>, mission |-> -1]

\* None put on the queue in place of a point list (it is no list: the tag -2
\* tells it from every list).
NoneItem == [points |-> <<>>, mission |-> -2]

\* A get that does not wait: an empty queue yields an empty list at once.
QueueGetNoWait(q) ==
    IF q = <<>> THEN [ready |-> TRUE, item |-> NoItem, rest |-> q]
    ELSE [ready |-> TRUE, item |-> Head(q), rest |-> Tail(q)]

\* Queue.get(): blocks while the queue is empty, then removes the oldest item.
QueueGet(q) ==
    IF q = <<>> THEN [ready |-> FALSE, item |-> NoItem, rest |-> q]
    ELSE [ready |-> TRUE, item |-> Head(q), rest |-> Tail(q)]

(* ------------------------------- Init --------------------------------- *)
\* No planner call made, the telemetry listener not started, no call made on an
\* agent by a client of its own, no registry update under way, no frame matched.
PlannerIdle == [start |-> <<0, 0>>, points |-> <<>>, edges |-> {}, path |-> <<>>, pc |-> "idle"]
NoDatagram == [id |-> -1, size |-> 0]
TelemetryIdle == [voltage |-> 0, pose |-> <<0, 0, 0, 0, 0, 0>>, running |-> FALSE,
                  listening |-> FALSE, last |-> NoDatagram, starts |-> 0]
AgentIdle == [running |-> FALSE, thread |-> 0, threads |-> <<>>, active |-> FALSE,
              client |-> "idle", calls |-> 0, log |-> <<>>]
NoRead == [point |-> <<0, 0>>, entry |-> None, pc |-> "none"]

\* A frame consumer after __init__: its queue is empty, its thread not started;
\* no frame has been handed to enqueue.
FramesIdle == [maxsize |-> 1, queue |-> <<>>, running |-> FALSE, pc |-> "idle", fwt |-> 0,
               attempts |-> 0, next |-> 1, got |-> 0]

\* The operation after OperationController.__init__.
OperationInit ==
    /\ n_missions \in 1..MaxN
    /\ operation = [status |-> NOT_STARTED, start_time |-> None, finished_time |-> None]
    /\ explorer = [pc |-> "idle", current_mission_id |-> 0, status |-> NOT_STARTED,
                   start_finish_times |-> <<>>, points_current_mission |-> <<>>,
                   start_time |-> None, finish_time |-> None]
    /\ inspector = [pc |-> "idle", current_mission_id |-> 0, status |-> NOT_STARTED,
                    start_time_current_mission |-> None, start_finish_times |-> <<>>,
                    list_mission |-> -1]
    /\ points_temperatures = EmptyMap
    /\ queue = <<>>
    /\ all_points = EmptyMap
    /\ events = [stop_exploration |-> FALSE, start_next_exploration |-> FALSE,
                 inspector_done |-> FALSE]
    /\ drone_active = FALSE
    /\ dog = [running |-> FALSE, waypoints |-> <<>>, position |-> <<0, 0>>,
              thread |-> "none", index |-> 1, orphans |-> 0]
    /\ clock = 1
    /\ detections = 0
    /\ operator = [stops |-> 0, nexts |-> 0]
    /\ history = [enqueued |-> <<>>, handed |-> <<>>, finish_count |-> 0, metrics |-> "none",
                  stale_stop |-> FALSE, start_ignored |-> FALSE]
    /\ late = -1

Init ==
    /\ OperationInit
    /\ planner = PlannerIdle
    /\ telemetry = TelemetryIdle
    /\ agent = AgentIdle
    /\ pending = NoRead
    /\ frames = FramesIdle

(* ------------------------ operation controller ------------------------ *)
\* The condition of the guarded block of _on_all_missions_finished.
AllMissionsFinished ==
    /\ explorer.current_mission_id = n_missions - 1
    /\ explorer.status = FINISHED
    /\ inspector.current_mission_id = n_missions - 1
    /\ inspector.status = FINISHED

\* _save_metrics reads start_finish_times[mission_id] of both drivers for every
\* mission id; a missing pair raises IndexError and no file is written.
MetricsOutcome ==
    IF Len(explorer.start_finish_times) >= n_missions
       /\ Len(inspector.start_finish_times) >= n_missions
    THEN "saved" ELSE "error"

\* OperationController._on_all_missions_finished, run under the controller's lock
\* by the driver thread that has left its loop.
OnAllMissionsFinished ==
    IF AllMissionsFinished
    THEN /\ operation' = [operation EXCEPT !.finished_time = clock, !.status = FINISHED]
         /\ history' = [history EXCEPT !.finish_count = @ + 1, !.metrics = MetricsOutcome]
    ELSE UNCHANGED <<operation, history>>

\* OperationController.start. Thread.start() raises on a second call, so the
\* drivers are launched once.
Start ==
    /\ explorer.pc = "idle"
    /\ operation' = [operation EXCEPT !.start_time = clock, !.status = RUNNING]
    /\ explorer' = [explorer EXCEPT !.pc = "loop"]
    /\ inspector' = [inspector EXCEPT !.pc = "loop"]
    /\ events' = [events EXCEPT !.start_next_exploration = TRUE]
    /\ UNCHANGED <<clock, n_missions, points_temperatures, queue, all_points, drone_active, late, units, dog,
                   detections, operator, history>>

\* A refusal that forgets the test of the RUNNING status.
StartNextRefusedWhenDone(current_mission_id, status, n) == current_mission_id >= n - 1

\* A refusal that forgets the test of the mission id.
StartNextRefusedWhenRunning(current_mission_id, status, n) == status = RUNNING

\* The two refusal conditions of ExplorationController.start_next_exploration.
StartNextRefused(current_mission_id, status, n) ==
    \/ current_mission_id >= n - 1
    \/ status = RUNNING

\* OperationController.next_mission -> ExplorationController.start_next_exploration
start_next_exploration ==
    /\ IF StartNextRefused(explorer.current_mission_id, explorer.status, n_missions)
       THEN UNCHANGED <<explorer, events>>
       ELSE /\ explorer' = [explorer EXCEPT !.current_mission_id = @ + 1]
            /\ events' = [events EXCEPT !.start_next_exploration = TRUE]
    /\ UNCHANGED <<n_missions, operation, inspector, points_temperatures, queue, all_points,
                   drone_active, late, units, dog, clock, detections, history>>

\* OperationController.stop_inspection -> OperationEvents.trigger_stop_exploration
stop_inspection ==
    /\ events' = [events EXCEPT !.stop_exploration = TRUE]
    /\ history' = [history EXCEPT !.stale_stop =
                       IF explorer.status = RUNNING THEN FALSE
                       ELSE IF events.stop_exploration THEN @ ELSE TRUE]
    /\ UNCHANGED <<n_missions, operation, explorer, inspector, points_temperatures, queue,
                   all_points, drone_active, late, units, dog, clock, detections>>

\* The operator may call next_mission and stop_inspection at any time.
NextMission == start_next_exploration /\ UNCHANGED operator
StopInspection == stop_inspection /\ UNCHANGED operator

\* The operator that follows the protocol: one stop_inspection per exploration
\* phase, issued while the explorer is RUNNING, ...
ProtocolStop ==
    /\ explorer.status = RUNNING
    /\ operator.stops = Len(explorer.start_finish_times)
    /\ stop_inspection
    /\ operator' = [operator EXCEPT !.stops = @ + 1]

\* ... and one next_mission per finished phase.
ProtocolNext ==
    /\ explorer.status = FINISHED
    /\ operator.nexts < Len(explorer.start_finish_times)
    /\ start_next_exploration
    /\ operator' = [operator EXCEPT !.nexts = @ + 1]

\* The operator that calls stop_inspection right after start, before the
\* exploration driver has started its first phase, ...
EarlyStop ==
    /\ operator.stops = 0
    /\ explorer.pc \in {"loop", "wait_start", "set_running"}
    /\ stop_inspection
    /\ operator' = [operator EXCEPT !.stops = @ + 1]

\* ... and follows the protocol for the later phases.
LaterStop == operator.stops > 0 /\ ProtocolStop

(* -------------------------- exploration driver ------------------------ *)
\* The loop condition of ExplorationController.run.
ExplorerHasMission(current_mission_id, n) == current_mission_id < n - 1

\* while self.current_mission_id < self._n_missions - 1: the test passes
ExpLoopTest ==
    /\ explorer.pc = "loop"
    /\ ExplorerHasMission(explorer.current_mission_id, n_missions)
    /\ explorer' = [explorer EXCEPT !.pc = "wait_start"]
    /\ UNCHANGED <<n_missions, operation, inspector, points_temperatures, queue, all_points,
                   events, drone_active, late, units, dog, clock, detections, operator, history>>

\* self._events.wait_for_start_next_exploration();
\* self._events.clear_start_next_exploration()
ExpWaitStart ==
    /\ explorer.pc = "wait_start"
    /\ events.start_next_exploration
    /\ events' = [events EXCEPT !.start_next_exploration = clear_start_next_exploration(@)]
    /\ explorer' = [explorer EXCEPT !.pc = "set_running"]
    /\ UNCHANGED <<n_missions, operation, inspector, points_temperatures, queue, all_points,
                   drone_active, late, units, dog, clock, detections, operator, history>>

\* with self._lock: self.status = RUNNING; start_time = time();
\* self._robot.start_routine(): Drone.start_routine sets _active (it returns at once
\* when already active) and starts the detection pipeline.
ExpStartRoutine ==
    /\ explorer.pc = "set_running"
    /\ explorer' = [explorer EXCEPT !.status = RUNNING, !.start_time = clock,
                                    !.pc = "wait_stop"]
    /\ drone_active' = TRUE
    /\ UNCHANGED <<late, units>>
    /\ UNCHANGED <<clock, n_missions, operation, inspector, points_temperatures, queue, all_points,
                   events, dog, detections, operator, history>>

\* self._events.wait_for_stop_exploration(); self._events.clear_stop_exploration();
\* self._robot.stop_routine(); finish_time = time(), a reading that is later than
\* every earlier one
StopRoutineAndStamp ==
    /\ explorer.pc = "wait_stop"
    /\ events.stop_exploration
    /\ events' = [events EXCEPT !.stop_exploration = clear_stop_exploration(@)]
    /\ history' = [history EXCEPT !.stale_stop = FALSE]
    /\ drone_active' = FALSE
    /\ explorer' = [explorer EXCEPT !.finish_time = clock + 1, !.pc = "hand_off"]
    /\ clock' = clock + 1
    /\ UNCHANGED <<n_missions, operation, inspector, points_temperatures, queue, all_points,
                   dog, detections, operator>>

\* Drone.stop_routine whose ColorDetection.stop() joins a detection thread that
\* has ended.
ExpStopRoutine == StopRoutineAndStamp /\ UNCHANGED <<late, units>>

\* Drone.stop_routine whose ColorDetection.stop() gives up after join(timeout = 1.0):
\* the detection thread is still processing a frame of this phase.
ExpStopTimeout ==
    /\ StopRoutineAndStamp
    /\ late' = IF late = -1 THEN explorer.current_mission_id ELSE late
    /\ UNCHANGED units

\* Queue.put() blocks while the queue holds maxsize items (maxsize <= 0: never).
PutBlocks == QueueMaxSize(n_missions) > 0 /\ Len(queue) >= QueueMaxSize(n_missions)

\* with self._lock: status = FINISHED; append the times; put the list; clear it
ExpHandOff ==
    /\ explorer.pc = "hand_off"
    /\ ~PutBlocks
    /\ explorer' = [explorer EXCEPT
           !.status = FINISHED,
           !.start_finish_times = Append(@, <<explorer.start_time, explorer.finish_time>>),
           !.points_current_mission = <<>>,
           !.start_time = None, !.finish_time = None,
           !.pc = "loop"]
    /\ queue' = Append(queue, [points |-> explorer.points_current_mission,
                               mission |-> explorer.current_mission_id])
    /\ history' = [history EXCEPT !.enqueued = Append(@, explorer.current_mission_id),
                                  !.handed = Append(@, explorer.points_current_mission)]
    /\ UNCHANGED <<n_missions, operation, inspector, points_temperatures, all_points, events,
                   drone_active, late, units, dog, clock, detections, operator>>

\* the loop condition fails (start_next_exploration refuses from then on, so the
\* mission id no longer changes): with self._lock: self.status = FINISHED
ExpExit ==
    /\ explorer.pc = "loop"
    /\ ~ExplorerHasMission(explorer.current_mission_id, n_missions)
    /\ explorer' = [explorer EXCEPT !.status = FINISHED, !.pc = "callback"]
    /\ UNCHANGED <<n_missions, operation, inspector, points_temperatures, queue, all_points,
                   events, drone_active, late, units, dog, clock, detections, operator, history>>

\* if self._callback_onFinishAll: self._callback_onFinishAll()
ExpCallback ==
    /\ explorer.pc = "callback"
    /\ OnAllMissionsFinished
    /\ explorer' = [explorer EXCEPT !.pc = "done"]
    /\ UNCHANGED <<clock, n_missions, inspector, points_temperatures, queue, all_points, events,
                   drone_active, late, units, dog, detections, operator>>

\* ExplorationController._on_point for a relative point: the absolute point is
\* computed from base_positions[base_mission] before the lock is taken; the body
\* under the lock reads current_mission_id again. MaxDetections caps the
\* detections that are accepted; one that is too close to a point of the current
\* mission returns without a change.
OnPoint(point, base_mission) ==
    LET abs == <<BasePosition(base_mission)[1] + point[1],
                 BasePosition(base_mission)[2] + point[2]>>
    IN IF ~IsTooClose(explorer.points_current_mission, abs)
       THEN /\ detections < MaxDetections
            /\ detections' = detections + 1
            /\ explorer' = [explorer EXCEPT !.points_current_mission = Append(@, abs)]
            /\ all_points' = MapSet(all_points, abs,
                   [mission |-> explorer.current_mission_id, inspected |-> FALSE,
                    detected_time |-> clock, inspected_time |-> None])
       ELSE UNCHANGED <<explorer, all_points, detections>>

\* The callback fired by the explorer agent while it is active: next_mission is
\* refused while the driver is RUNNING, so the mission id does not change under it.
ExpOnPoint(point) ==
    /\ drone_active
    /\ OnPoint(point, explorer.current_mission_id)
    /\ UNCHANGED <<n_missions, operation, inspector, points_temperatures, queue, events,
                   drone_active, late, units, dog, clock, operator, history>>

\* The callback fired by a detection thread that outlived its join: it read the
\* mission id at some moment since its phase was stopped, then its loop ends.
ExpLateOnPoint(point) ==
    /\ late # -1
    /\ \E base_mission \in late..explorer.current_mission_id : OnPoint(point, base_mission)
    /\ late' = -1
    /\ UNCHANGED <<n_missions, operation, inspector, points_temperatures, queue, events,
                   drone_active, units, dog, clock, operator, history>>

(* --------------------------- inspector agent -------------------------- *)
\* A mission test that is off by one.
MissionMatchesOffByOne(mission_idx, current_mission_id) == mission_idx = current_mission_id + 1

\* A mission test that accepts every registered point.
MissionMatchesAny(mission_idx, current_mission_id) == TRUE

\* The mission test of InspectionController._on_point.
MissionMatches(mission_idx, current_mission_id) == mission_idx = current_mission_id

\* InspectionController._on_point, fired by the movement thread at a waypoint.
InsOnPoint(point) ==
    IF point \in DOMAIN all_points
       /\ MissionMatches(all_points[point].mission, inspector.current_mission_id)
    THEN /\ all_points' = MapSet(all_points, point,
                [all_points[point] EXCEPT !.inspected = TRUE, !.inspected_time = clock])
         /\ points_temperatures' = MapSet(points_temperatures, point, ROBOT_DOG_MEAN_TEMPERATURE)
         ELSE UNCHANGED <<all_points, points_temperatures>>

\* RobotDogSimulator._move, one waypoint: reached while _running, then on_point.
DogReach ==
    /\ dog.thread = "moving"
    /\ dog.running
    /\ dog.index <= Len(dog.waypoints)
    /\ dog' = [dog EXCEPT !.position = dog.waypoints[dog.index], !.index = @ + 1]
    /\ InsOnPoint(dog.waypoints[dog.index])
    /\ UNCHANGED <<clock, n_missions, operation, explorer, inspector, queue, events, drone_active, late, units,
                   detections, operator, history>>

\* InspectionController._on_point with an inspector agent whose get_telemetry()
\* returns None (ARobot allows it; Drone.get_telemetry does): the registry entry is
\* written, then None.get raises AttributeError before the temperature is stored.
InsOnPointNoTelemetry(point) ==
    /\ IF point \in DOMAIN all_points
          /\ MissionMatches(all_points[point].mission, inspector.current_mission_id)
       THEN all_points' = MapSet(all_points, point,
                [all_points[point] EXCEPT !.inspected = TRUE, !.inspected_time = clock])
       ELSE UNCHANGED all_points
    /\ UNCHANGED points_temperatures

\* A movement thread without the try/except round the callback: the exception
\* of the callback ends the thread at that waypoint.
DogReachUncaught ==
    /\ dog.thread = "moving"
    /\ dog.running
    /\ dog.index <= Len(dog.waypoints)
    /\ InsOnPointNoTelemetry(dog.waypoints[dog.index])
    /\ dog' = [dog EXCEPT !.position = dog.waypoints[dog.index], !.index = @ + 1,
                          !.thread = IF all_points' # all_points THEN "none" ELSE @]
    /\ UNCHANGED <<clock, n_missions, operation, explorer, inspector, queue, events,
                   drone_active, late, units, detections, operator, history>>

\* One waypoint of a movement thread of such an agent: the agent catches the
\* exception of the callback and goes on.
DogReachNoTelemetry ==
    /\ dog.thread = "moving"
    /\ dog.running
    /\ dog.index <= Len(dog.waypoints)
    /\ dog' = [dog EXCEPT !.position = dog.waypoints[dog.index], !.index = @ + 1]
    /\ InsOnPointNoTelemetry(dog.waypoints[dog.index])
    /\ UNCHANGED <<clock, n_missions, operation, explorer, inspector, queue, events,
                   drone_active, late, units, detections, operator, history>>

\* _move at a waypoint, up to the store of InspectionController._on_point: the
\* waypoint is reached, the callback takes the inspection driver's lock, finds the
\* point in the registry with the current mission id, and evaluates the tuple it
\* is about to store from the entry it reads.
DogReachRead ==
    /\ dog.thread = "moving"
    /\ dog.running
    /\ dog.index <= Len(dog.waypoints)
    /\ pending.pc = "none"
    /\ LET point == dog.waypoints[dog.index]
       IN IF point \in DOMAIN all_points
             /\ MissionMatches(all_points[point].mission, inspector.current_mission_id)
          THEN /\ pending' = [point |-> point, entry |-> all_points[point], pc |-> "write"]
               /\ dog' = [dog EXCEPT !.position = point]
          ELSE /\ pending' = pending
               /\ dog' = [dog EXCEPT !.position = point, !.index = @ + 1]
    /\ UNCHANGED <<clock, n_missions, operation, explorer, inspector, points_temperatures, queue,
                   all_points, events, drone_active, late, planner, telemetry, agent, frames,
                   detections, operator, history>>

\* The store of InspectionController._on_point and the temperature reading, then
\* the callback returns and _move goes on to its next waypoint.
DogReachWrite ==
    /\ pending.pc = "write"
    /\ all_points' = MapSet(all_points, pending.point,
            [pending.entry EXCEPT !.inspected = TRUE, !.inspected_time = clock])
    /\ points_temperatures' = MapSet(points_temperatures, pending.point, ROBOT_DOG_MEAN_TEMPERATURE)
    /\ pending' = NoRead
    /\ dog' = [dog EXCEPT !.index = @ + 1]
    /\ UNCHANGED <<clock, n_missions, operation, explorer, inspector, queue, events,
                   drone_active, late, planner, telemetry, agent, frames, detections, operator,
                   history>>

\* RobotDogSimulator._move after its loop (all waypoints consumed, or _running
\* found False) calls InspectionController._on_finish.
DogFinish ==
    /\ dog.thread = "moving"
    /\ (dog.index > Len(dog.waypoints) \/ ~dog.running)
    /\ inspector' = [inspector EXCEPT
           !.status = FINISHED,
           !.start_finish_times = Append(@, <<inspector.start_time_current_mission, clock>>),
           !.start_time_current_mission = None]
    /\ events' = [events EXCEPT !.inspector_done = TRUE]
    /\ dog' = [dog EXCEPT !.thread = "tail"]
    /\ UNCHANGED <<clock, n_missions, operation, explorer, points_temperatures, queue, all_points,
                   drone_active, late, units, detections, operator, history>>

\* The last statement of _move: self._running = False.
DogTail ==
    /\ dog.thread = "tail"
    /\ dog' = [dog EXCEPT !.running = FALSE, !.thread = "none"]
    /\ UNCHANGED <<n_missions, operation, explorer, inspector, points_temperatures, queue,
                   all_points, events, drone_active, late, units, clock, detections, operator, history>>

\* The same statement run by a movement thread that stop_inspection gave up joining.
DogOrphanTail ==
    /\ dog.orphans > 0
    /\ dog' = [dog EXCEPT !.running = FALSE, !.orphans = @ - 1]
    /\ UNCHANGED <<n_missions, operation, explorer, inspector, points_temperatures, queue,
                   all_points, events, drone_active, late, units, clock, detections, operator, history>>

(* -------------------------- inspection driver ------------------------- *)
\* The loop condition of InspectionController.run.
InspectorHasMission(current_mission_id, n) == current_mission_id < n - 1

\* A mission id advanced at every dequeue, the first included.
InspectorMissionIdAlways(status, current_mission_id) == current_mission_id + 1

\* if self.status != NOT_STARTED: self.current_mission_id += 1
InspectorMissionId(status, current_mission_id) ==
    IF status # NOT_STARTED THEN current_mission_id + 1 ELSE current_mission_id

\* One pass of the loop head of InspectionController.run while a mission remains:
\*   points = self._points_queue.get()
\*   with self._lock: advance the mission id, status = RUNNING, stamp the start time
\*   path = plan_path(robot.get_current_position(), points); robot.start_routine(path)
\* RobotDogSimulator.start_inspection ignores the request while _running.
InsStartRoutine ==
    /\ inspector.pc = "loop"
    /\ InspectorHasMission(inspector.current_mission_id, n_missions)
    /\ QueueGet(queue).ready
    /\ QueueGet(queue).item # NoneItem
    /\ queue' = QueueGet(queue).rest
    /\ inspector' = [inspector EXCEPT
           !.list_mission = QueueGet(queue).item.mission,
           !.current_mission_id = InspectorMissionId(inspector.status, @),
           !.status = RUNNING,
           !.start_time_current_mission = clock,
           !.pc = "wait"]
    /\ dog' = IF dog.running THEN dog
              ELSE [dog EXCEPT !.waypoints = plan_path(dog.position, QueueGet(queue).item.points),
                               !.running = TRUE, !.thread = "moving", !.index = 1]
    /\ history' = [history EXCEPT !.start_ignored = @ \/ dog.running]
    /\ UNCHANGED <<clock, n_missions, operation, explorer, points_temperatures, all_points, events,
                   drone_active, late, units, detections, operator>>

\* A holder of the shared queue puts None on it (no code of the repository does).
PutNone ==
    /\ ~PutBlocks
    /\ NoneItem \notin {queue[i] : i \in 1..Len(queue)}
    /\ inspector.pc \in {"idle", "loop", "wait", "join"}
    /\ queue' = Append(queue, NoneItem)
    /\ UNCHANGED <<n_missions, operation, explorer, inspector, points_temperatures, all_points,
                   events, drone_active, late, units, dog, clock, detections, operator, history>>

\* The pass of the loop of InspectionController.run that dequeues None: the
\* arguments of the log call are evaluated first and len(None) raises TypeError,
\* which nothing in run catches: the driver thread ends with the exception.
InsDequeueNone ==
    /\ inspector.pc = "loop"
    /\ InspectorHasMission(inspector.current_mission_id, n_missions)
    /\ QueueGet(queue).ready
    /\ QueueGet(queue).item = NoneItem
    /\ queue' = QueueGet(queue).rest
    /\ inspector' = [inspector EXCEPT !.pc = "raised"]
    /\ UNCHANGED <<n_missions, operation, explorer, points_temperatures, all_points,
                   events, drone_active, late, units, dog, clock, detections, operator, history>>

\* self._events.wait_for_inspector_done(); self._events.clear_inspector_done();
\* self._robot.stop_routine(): RobotDogSimulator.stop_inspection returns at once
\* when not _running, else clears _running and joins the movement thread.
InsStopRoutine ==
    /\ inspector.pc = "wait"
    /\ events.inspector_done
    /\ events' = [events EXCEPT !.inspector_done = clear_inspector_done(@)]
    /\ IF ~dog.running
       THEN /\ inspector' = [inspector EXCEPT !.pc = "loop"]
            /\ UNCHANGED dog
       ELSE /\ inspector' = [inspector EXCEPT !.pc = "join"]
            /\ dog' = [dog EXCEPT !.running = FALSE]
    /\ UNCHANGED <<n_missions, operation, explorer, points_temperatures, queue, all_points,
                   drone_active, late, units, clock, detections, operator, history>>

\* self._thread.join(timeout = 1.0) returns because the movement thread has ended.
InsJoin ==
    /\ inspector.pc = "join"
    /\ dog.thread = "none"
    /\ inspector' = [inspector EXCEPT !.pc = "loop"]
    /\ UNCHANGED <<n_missions, operation, explorer, points_temperatures, queue, all_points,
                   events, drone_active, late, units, dog, clock, detections, operator, history>>

\* self._thread.join(timeout = 1.0) returns on the timeout: the thread, still
\* before its last statement, is forgotten (self._thread = None).
InsJoinTimeout ==
    /\ inspector.pc = "join"
    /\ dog.thread = "tail"
    /\ dog' = [dog EXCEPT !.thread = "none", !.orphans = @ + 1]
    /\ inspector' = [inspector EXCEPT !.pc = "loop"]
    /\ UNCHANGED <<n_missions, operation, explorer, points_temperatures, queue, all_points,
                   events, drone_active, late, units, clock, detections, operator, history>>

\* the loop condition fails: with self._lock: self.status = FINISHED
InsExit ==
    /\ inspector.pc = "loop"
    /\ ~InspectorHasMission(inspector.current_mission_id, n_missions)
    /\ inspector' = [inspector EXCEPT !.status = FINISHED, !.pc = "callback"]
    /\ UNCHANGED <<n_missions, operation, explorer, points_temperatures, queue, all_points,
                   events, drone_active, late, units, dog, clock, detections, operator, history>>

\* if self._callback_onFinishAll: self._callback_onFinishAll()
InsCallback ==
    /\ inspector.pc = "callback"
    /\ OnAllMissionsFinished
    /\ inspector' = [inspector EXCEPT !.pc = "done"]
    /\ UNCHANGED <<clock, n_missions, explorer, points_temperatures, queue, all_points, events,
                   drone_active, late, units, dog, detections, operator>>

(* ----------------------- path planner, on its own --------------------- *)
\* Points a caller may hand to a planner: a line of grid cells and one cell off it.
PlanPoints == {<<x, 0>> : x \in 0..MaxCoord} \cup {<<0, 1>>}

\* The lists of at most n such points, duplicates included.
PointLists(n) == UNION {[1..k -> PlanPoints] : k \in 0..n}

\* A caller about to call plan_path(start, points).
PlannerInit ==
    /\ OperationInit
    /\ n_missions = 1
    /\ planner \in {[PlannerIdle EXCEPT !.start = s, !.points = P, !.pc = "call"] :
                       s \in PlanPoints, P \in PointLists(MaxPlanLen)}
    /\ telemetry = TelemetryIdle
    /\ agent = AgentIdle
    /\ pending = NoRead
    /\ frames = FramesIdle

\* NearestNeighborPlanner.plan_path(start, points) returns.
PlanPath ==
    /\ planner.pc = "call"
    /\ planner' = [planner EXCEPT !.path = plan_path(planner.start, planner.points),
                                   !.pc = "returned"]
    /\ UNCHANGED <<n_missions, operation, explorer, inspector, points_temperatures, queue,
                   all_points, events, drone_active, dog, clock, detections, operator, history,
                   late, telemetry, agent, pending, frames>>

PlannerNext == PlanPath

PlannerSpec == PlannerInit /\ [][PlannerNext]_vars

(* ----------------------- exact planner, on its own --------------------- *)
\* Points a caller may hand to the exact planner: cells of one line, so that
\* every distance is a whole number of cells and the costs compare exactly.
IlpPoints == {<<x, 0>> : x \in 0..MaxIlpCoord}

\* ILPPlanner._euclidean_distance: the square root of the squared distance.
EuclideanDistance(p, q) == CHOOSE d \in 0..(2 * MaxIlpCoord) : d * d = Dist2(p, q)

\* The binary variables x[(i, j)], i < j, over the nodes 0..n-1 (node 0 is start).
EdgeVars(n) == {e \in (0..(n - 1)) \X (0..(n - 1)) : e[1] < e[2]}

\* deg_expr of node i under the assignment that selects the edges sel.
Degree(sel, i) == Cardinality({e \in sel : e[1] = i \/ e[2] = i})

\* The constraints of the integer program: degree of start = 1, degree of every
\* other node <= 2, n - 1 selected edges.
Constraints(n, sel) ==
    /\ Degree(sel, 0) = 1
    /\ \A i \in 1..(n - 1) : Degree(sel, i) <= 2
    /\ Cardinality(sel) = n - 1

\* The objective: the sum of the distances of the selected edges.
RECURSIVE Objective(_, _)
Objective(all, sel) ==
    IF sel = {} THEN 0
    ELSE LET e == CHOOSE f \in sel : TRUE
         IN EuclideanDistance(all[e[1] + 1], all[e[2] + 1]) + Objective(all, sel \ {e})

\* The assignments m.optimize() may end on: the feasible ones of least objective.
Optimal(all) ==
    LET feasible == {sel \in SUBSET EdgeVars(Len(all)) : Constraints(Len(all), sel)}
        values == {Objective(all, sel) : sel \in feasible}
        least == CHOOSE c \in values : \A d \in values : c <= d
    IN {sel \in feasible : Objective(all, sel) = least}

\* adj[cur] of _extract_path: sol_edges lists the edges by (i, j) ascending, so the
\* neighbours of a node are appended in ascending order; the first one that is
\* not prev, or -1 for None.
NextNode(sel, prev, cur) ==
    LET adj == {v \in 0..Cardinality(sel) : (<<cur, v>> \in sel \/ <<v, cur>> \in sel) /\ v # prev}
    IN IF adj = {} THEN -1 ELSE CHOOSE v \in adj : \A w \in adj : v <= w

\* The while loop of _extract_path.
RECURSIVE ExtractWalk(_, _, _)
ExtractWalk(sel, prev, cur) ==
    LET nxt == NextNode(sel, prev, cur)
    IN IF nxt = -1 THEN <<>> ELSE <<nxt>> \o ExtractWalk(sel, cur, nxt)

\* ILPPlanner._extract_path
extract_path(sel) == <<0>> \o ExtractWalk(sel, -1, 0)

\* ILPPlanner.plan_path for the assignment sel the solver ended on:
\* ordered_points = [points[i] for i in path], returned without its first element.
IlpResult(all, sel) ==
    LET path == extract_path(sel)
    IN Tail([k \in 1..Len(path) |-> all[path[k] + 1]])

\* A caller about to call ILPPlanner.plan_path(start, points).
IlpInit ==
    /\ OperationInit
    /\ n_missions = 1
    /\ planner \in {[PlannerIdle EXCEPT !.start = s, !.points = P, !.pc = "call"] :
                       s \in IlpPoints, P \in UNION {[1..k -> IlpPoints] : k \in 0..MaxIlpLen}}
    /\ telemetry = TelemetryIdle
    /\ agent = AgentIdle
    /\ pending = NoRead
    /\ frames = FramesIdle

\* ILPPlanner.plan_path(start, points) returns: [] for an empty list, else the
\* path extracted from an optimal assignment, whichever the solver ends on.
IlpPlanPath ==
    /\ planner.pc = "call"
    /\ IF planner.points = <<>>
       THEN planner' = [planner EXCEPT !.path = <<>>, !.pc = "returned"]
       ELSE \E sel \in Optimal(<<planner.start>> \o planner.points) :
               planner' = [planner EXCEPT
                   !.edges = sel,
                   !.path = IlpResult(<<planner.start>> \o planner.points, sel),
                   !.pc = "returned"]
    /\ UNCHANGED <<n_missions, operation, explorer, inspector, points_temperatures, queue,
                   all_points, events, drone_active, dog, clock, detections, operator, history,
                   late, telemetry, agent, pending, frames>>

IlpNext == IlpPlanPath

IlpSpec == IlpInit /\ [][IlpNext]_vars

(* ------------------------- agents, on their own ------------------------ *)
\* RobotDogSimulator and Drone driven by a client that calls start and stop at
\* any moment and registers callbacks that record the call in agent.log.
\* agent.threads lists the movement threads ever started; each iterates over the
\* list it was started with, is at position index of it, and is at the head of
\* the for loop ("head"), inside the while loop ("walk"), before the finish
\* callback ("finish"), before its last statement ("tail") or ended ("done").
\* agent.thread is self._thread: an index into agent.threads, or 0 for None.
\* The paths the client gives: k cells in a row, k = 0..MaxWaypoints (_move reads
\* nothing of a waypoint but where to walk to).
WaypointLists == {[i \in 1..k |-> <<i, 0>>] : k \in 0..MaxWaypoints}

LogEntry(ev, t, p) == [ev |-> ev, thread |-> t, point |-> p]

AgentUnchanged ==
    UNCHANGED <<n_missions, operation, explorer, inspector, points_temperatures, queue,
                all_points, events, drone_active, dog, clock, detections, operator, history,
                late, planner, telemetry, pending, frames>>

AgentInit ==
    /\ OperationInit
    /\ n_missions = 1
    /\ planner = PlannerIdle
    /\ telemetry = TelemetryIdle
    /\ agent = AgentIdle
    /\ pending = NoRead
    /\ frames = FramesIdle

\* A stop test that never finds the agent stopped.
AlreadyStoppedNever(flag) == FALSE

\* if not self._running: return  /  if not self._active: return []
AlreadyStopped(flag) == ~flag

\* RobotDogSimulator.start_inspection(positions)
AgentStartInspection(positions) ==
    /\ agent.client = "idle"
    /\ agent.calls < MaxCalls
    /\ IF agent.running
       THEN agent' = [agent EXCEPT !.calls = @ + 1]
       ELSE agent' = [agent EXCEPT
                !.calls = @ + 1,
                !.running = TRUE,
                !.threads = Append(@, [waypoints |-> positions, index |-> 1, pc |-> "head"]),
                !.thread = Len(agent.threads) + 1]
    /\ AgentUnchanged

\* RobotDogSimulator.stop_inspection() up to its join.
AgentStopInspection ==
    /\ agent.client = "idle"
    /\ agent.calls < MaxCalls
    /\ LET called == [agent EXCEPT !.calls = @ + 1,
                                    !.log = Append(@, LogEntry("stop_inspection", 0, <<0, 0>>))]
       IN IF AlreadyStopped(agent.running)
          THEN agent' = called
          ELSE agent' = [called EXCEPT !.running = FALSE,
                                       !.client = IF agent.thread # 0 THEN "joining" ELSE "idle"]
    /\ AgentUnchanged

\* self._thread.join(timeout = 1.0) returns, the thread ended or not;
\* self._thread = None.
AgentJoinReturn ==
    /\ agent.client = "joining"
    /\ agent' = [agent EXCEPT !.thread = 0, !.client = "idle"]
    /\ AgentUnchanged

\* _move, the head of the for loop: the next target, or out of the loop when the
\* list is consumed or _running is found False.
MoveHead(t) ==
    /\ agent.threads[t].pc = "head"
    /\ agent' = [agent EXCEPT !.threads[t].pc =
           IF agent.threads[t].index > Len(agent.threads[t].waypoints) \/ ~agent.running
           THEN "finish" ELSE "walk"]
    /\ AgentUnchanged

\* A movement thread that skips the finish callback when its walk was cut short.
MoveFinishUnlessStopped(t) ==
    /\ agent.threads[t].pc = "finish"
    /\ agent' = [agent EXCEPT
           !.threads[t].pc = "tail",
           !.log = IF agent.threads[t].index > Len(agent.threads[t].waypoints)
                   THEN Append(@, LogEntry("on_finish", t, <<0, 0>>)) ELSE @]
    /\ AgentUnchanged

\* _move, the while loop: the target is reached while _running and on_point is
\* called for it, or _running is found False and the loop is left without.
MoveWalk(t) ==
    /\ agent.threads[t].pc = "walk"
    /\ agent' = [agent EXCEPT
           !.threads[t].pc = "head",
           !.threads[t].index = @ + 1,
           !.log = IF agent.running
                   THEN Append(@, LogEntry("on_point", t,
                            agent.threads[t].waypoints[agent.threads[t].index]))
                   ELSE @]
    /\ AgentUnchanged

\* _move after the loop: the finish callback.
MoveFinish(t) ==
    /\ agent.threads[t].pc = "finish"
    /\ agent' = [agent EXCEPT !.threads[t].pc = "tail",
                              !.log = Append(@, LogEntry("on_finish", t, <<0, 0>>))]
    /\ AgentUnchanged

\* The last statement of _move: self._running = False.
MoveTail(t) ==
    /\ agent.threads[t].pc = "tail"
    /\ agent' = [agent EXCEPT !.threads[t].pc = "done", !.running = FALSE]
    /\ AgentUnchanged

\* Drone.start_routine()
AgentStartRoutine ==
    /\ agent.client = "idle"
    /\ agent.calls < MaxCalls
    /\ agent' = [agent EXCEPT !.calls = @ + 1, !.active = TRUE]
    /\ AgentUnchanged

\* Drone.stop_routine(): the pipeline is stopped and the finish callback called,
\* unless the drone is not active.
AgentStopRoutine ==
    /\ agent.client = "idle"
    /\ agent.calls < MaxCalls
    /\ LET called == [agent EXCEPT !.calls = @ + 1,
                                    !.log = Append(@, LogEntry("stop_routine", 0, <<0, 0>>))]
       IN IF AlreadyStopped(agent.active)
          THEN agent' = called
          ELSE agent' = [called EXCEPT
                   !.active = FALSE,
                   !.log = Append(@, LogEntry("drone_on_finish", 0, <<0, 0>>))]
    /\ AgentUnchanged

AgentClientStep ==
    \/ \E positions \in WaypointLists : AgentStartInspection(positions)
    \/ AgentStopInspection \/ AgentJoinReturn
    \/ AgentStartRoutine \/ AgentStopRoutine

AgentMoveStep ==
    \E t \in 1..Len(agent.threads) : MoveHead(t) \/ MoveWalk(t) \/ MoveFinish(t) \/ MoveTail(t)

AgentNext == AgentClientStep \/ AgentMoveStep

AgentSpec == AgentInit /\ [][AgentNext]_vars

(* ---------------------- telemetry listener, on its own ----------------- *)
\* A datagram is its first byte (the packet id) and its payload: whole
\* little-endian 32-bit words, each standing for the float it encodes, followed by
\* 0..3 bytes of an incomplete word.  The words of a datagram count up from its
\* first word, so that every field of a snapshot tells which word it came from.
Datagrams ==
    {[id |-> i, words |-> [k \in 1..n |-> v + k - 1], extra |-> x] :
        i \in 0..3, n \in 0..MaxPayloadWords, v \in 1..MaxWord, x \in 0..3}

\* len(payload)
PayloadSize(d) == 4 * Len(d.words) + d.extra

\* A dispatch that takes every packet that is not a battery packet for a pose packet.
DispatchElsePose(packet_id) ==
    IF packet_id = PACKET_ID_BATTERY THEN "battery" ELSE "pose"

\* if packet_id == PACKET_ID_BATTERY: ... elif packet_id == PACKET_ID_POSE: ...
Dispatch(packet_id) ==
    IF packet_id = PACKET_ID_BATTERY THEN "battery"
    ELSE IF packet_id = PACKET_ID_POSE THEN "pose"
    ELSE "none"

\* DroneTelemetry._process_battery_packet: the snapshot after it.
process_battery_packet(snapshot, d) ==
    IF PayloadSize(d) < STRUCT_BATTERY_size THEN snapshot
    ELSE [snapshot EXCEPT !.voltage = d.words[1]]

\* DroneTelemetry._process_pose_packet: the snapshot after it.
process_pose_packet(snapshot, d) ==
    IF PayloadSize(d) < STRUCT_POSE_size THEN snapshot
    ELSE [snapshot EXCEPT !.pose = SubSeq(d.words, 1, 6)]

TelemetryUnchanged ==
    UNCHANGED <<n_missions, operation, explorer, inspector, points_temperatures, queue,
                all_points, events, drone_active, dog, clock, detections, operator, history,
                late, planner, agent, pending, frames>>

TelemetryInit ==
    /\ OperationInit
    /\ n_missions = 1
    /\ planner = PlannerIdle
    /\ telemetry = TelemetryIdle
    /\ agent = AgentIdle
    /\ pending = NoRead
    /\ frames = FramesIdle

\* DroneTelemetry.start(), called while no stopped listener is still on its way
\* out: it returns at once when _running is set, else it sets _running and starts
\* a listener thread, which binds its socket.  telemetry.starts counts the calls.
TelemetryStart ==
    /\ telemetry.starts < MaxStarts
    /\ telemetry.running \/ ~telemetry.listening
    /\ IF telemetry.running
       THEN telemetry' = [telemetry EXCEPT !.starts = @ + 1]
       ELSE telemetry' = [telemetry EXCEPT !.starts = @ + 1, !.running = TRUE,
                                           !.listening = TRUE]
    /\ TelemetryUnchanged

\* One pass of the loop of _listen that receives the datagram d.
TelemetryReceive(d) ==
    /\ telemetry.listening
    /\ telemetry.running
    /\ LET kind == Dispatch(d.id)
           after == IF kind = "battery" THEN process_battery_packet(telemetry, d)
                    ELSE IF kind = "pose" THEN process_pose_packet(telemetry, d)
                    ELSE telemetry
       IN telemetry' = [after EXCEPT !.last = [id |-> d.id, size |-> PayloadSize(d)]]
    /\ TelemetryUnchanged

\* recvfrom raises OSError: the loop is left and the socket closed; the thread
\* ends and _running is left as it is.
TelemetrySocketError ==
    /\ telemetry.listening
    /\ telemetry' = [telemetry EXCEPT !.listening = FALSE]
    /\ TelemetryUnchanged

\* DroneTelemetry.stop(): _running is cleared and the socket closed; the listener
\* leaves its loop at its next test or on the OSError of the closed socket.
TelemetryStop ==
    /\ telemetry.running
    /\ telemetry' = [telemetry EXCEPT !.running = FALSE]
    /\ TelemetryUnchanged

TelemetryNext ==
    \/ TelemetryStart
    \/ \E d \in Datagrams : TelemetryReceive(d)
    \/ TelemetrySocketError
    \/ TelemetryStop

TelemetrySpec == TelemetryInit /\ [][TelemetryNext]_vars

(* ----------------------- frame consumer, on its own -------------------- *)
\* AFrameConsumer.enqueue as the matcher thread calls it for the frames 1, 2, ...,
\* one call at a time, and the thread of ColorDetection that takes frames off the
\* same Queue(maxsize).  frames.pc is the matcher's position: "idle" outside
\* enqueue, "put" before put_nowait, "drop" inside the handler of Full before
\* get_nowait.  frames.got is the last frame the consumer thread has taken.
FramesUnchanged ==
    UNCHANGED <<n_missions, operation, explorer, inspector, points_temperatures, queue,
                all_points, events, drone_active, dog, clock, detections, operator, history,
                late, planner, telemetry, agent, pending>>

\* ColorDetection.__init__ for a configured maxsize >= 1.
FramesInit ==
    /\ OperationInit
    /\ n_missions = 1
    /\ planner = PlannerIdle
    /\ telemetry = TelemetryIdle
    /\ agent = AgentIdle
    /\ pending = NoRead
    /\ frames \in {[FramesIdle EXCEPT !.maxsize = m] : m \in 1..MaxFrameQueue}

\* Queue.full() as put_nowait tests it (maxsize > 0).
QueueFull(q, maxsize) == Len(q) >= maxsize

\* ColorDetection.start(): the thread of _process is started.
FrameConsumerStart ==
    /\ ~frames.running
    /\ frames' = [frames EXCEPT !.running = TRUE]
    /\ FramesUnchanged

\* One pass of the loop of _process in which self._queue.get(timeout = 0.1)
\* returns a frame.
FrameConsumerGet ==
    /\ frames.running
    /\ frames.queue # <<>>
    /\ frames' = [frames EXCEPT !.queue = Tail(@), !.got = Head(frames.queue)]
    /\ FramesUnchanged

\* Matcher._match: consumer.enqueue(fwt) is called for the next frame.
FrameEnqueueCall ==
    /\ frames.pc = "idle"
    /\ frames.next <= MaxFrames
    /\ frames' = [frames EXCEPT !.pc = "put", !.fwt = frames.next, !.next = @ + 1,
                                !.attempts = 0]
    /\ FramesUnchanged

\* self._queue.put_nowait(fwt): the frame is appended and enqueue returns, or Full
\* is raised and caught.
FramePutNowait ==
    /\ frames.pc = "put"
    /\ IF QueueFull(frames.queue, frames.maxsize)
       THEN frames' = [frames EXCEPT !.pc = "drop", !.attempts = @ + 1]
       ELSE frames' = [frames EXCEPT !.queue = Append(@, frames.fwt), !.pc = "idle",
                                     !.attempts = @ + 1]
    /\ FramesUnchanged

\* self._queue.get_nowait() inside the handler of Full: the oldest frame is removed
\* and the loop goes round, or Empty is raised and caught and the loop is left.
FrameGetNowait ==
    /\ frames.pc = "drop"
    /\ IF frames.queue # <<>>
       THEN frames' = [frames EXCEPT !.queue = Tail(@), !.pc = "put"]
       ELSE frames' = [frames EXCEPT !.pc = "idle"]
    /\ FramesUnchanged

FrameMatcherStep == FrameEnqueueCall \/ FramePutNowait \/ FrameGetNowait

FramesNext == FrameConsumerStart \/ FrameConsumerGet \/ FrameMatcherStep

FramesSpec == FramesInit /\ [][FramesNext]_vars

(* --------------------------- specifications --------------------------- *)
ExplorerStep ==
    \/ ExpLoopTest \/ ExpWaitStart \/ ExpStartRoutine \/ ExpStopRoutine \/ ExpHandOff
    \/ ExpExit \/ ExpCallback

InspectorStep ==
    \/ InsStartRoutine \/ InsStopRoutine \/ InsJoin \/ InsExit \/ InsCallback

DogStep == DogReach \/ DogFinish \/ DogTail

DroneStep == \E point \in RelPoints : ExpOnPoint(point)

DroneLateStep == \E point \in RelPoints : ExpLateOnPoint(point)

Next ==
    \/ Start \/ NextMission \/ StopInspection
    \/ ExplorerStep \/ InspectorStep \/ DogStep \/ DroneStep
    \/ InsJoinTimeout \/ DogOrphanTail

Spec == Init /\ [][Next]_vars

\* The operation driven by the operator that follows the protocol, every thread
\* scheduled fairly, and every join of a movement thread returning because the
\* thread has ended (its two trailing statements take far less than the timeout).
OperatorStep == Start \/ ProtocolNext \/ ProtocolStop
LiveNext == OperatorStep \/ ExplorerStep \/ InspectorStep \/ DogStep \/ DroneStep

LiveSpec ==
    /\ Init /\ [][LiveNext]_vars
    /\ WF_vars(OperatorStep)
    /\ WF_vars(ExplorerStep)
    /\ WF_vars(InspectorStep)
    /\ WF_vars(DogStep)

\* The operation driven by the operator that follows the protocol, in which a
\* detection thread may outlive the join of Drone.stop_routine and fire its
\* callback later, at any moment.
LateNext == LiveNext \/ ExpStopTimeout \/ DroneLateStep

LateSpec == Init /\ [][LateNext]_vars

\* The operation with an inspector agent that is any ARobot: its get_telemetry()
\* returns a reading or None.
AnyAgentNext == Next \/ DogReachNoTelemetry

AnyAgentSpec == Init /\ [][AnyAgentNext]_vars

\* An inspector agent whose get_telemetry() returns None at every call (as
\* Drone.get_telemetry does) in the operation driven by the operator that follows
\* the protocol, every thread scheduled fairly.
AnyAgentDogStep == DogReachNoTelemetry \/ DogFinish \/ DogTail
AnyAgentLiveNext == OperatorStep \/ ExplorerStep \/ InspectorStep \/ AnyAgentDogStep \/ DroneStep

AnyAgentLiveSpec ==
    /\ Init /\ [][AnyAgentLiveNext]_vars
    /\ WF_vars(OperatorStep)
    /\ WF_vars(ExplorerStep)
    /\ WF_vars(InspectorStep)
    /\ WF_vars(AnyAgentDogStep)

\* The operation driven by the operator that follows the protocol, with a holder
\* of the shared queue that may put None on it.
SentinelNext == LiveNext \/ PutNone \/ InsDequeueNone

SentinelSpec == Init /\ [][SentinelNext]_vars

\* The operation driven by the operator that follows the protocol, with the
\* steps of InspectionController._on_point told apart: it runs under the
\* inspection driver's lock, which ExplorationController._on_point does not take.
\* _move reaches its finish callback once no callback of a waypoint is under way.
DogFinishAfterCallback == pending.pc = "none" /\ DogFinish

RaceDogStep == DogReachRead \/ DogReachWrite \/ DogFinishAfterCallback \/ DogTail
RaceNext == OperatorStep \/ ExplorerStep \/ InspectorStep \/ RaceDogStep \/ DroneStep

RaceSpec == Init /\ [][RaceNext]_vars

\* The operation driven by the operator whose first stop_inspection comes right
\* after start, every thread scheduled fairly.
EarlyOperatorStep == Start \/ EarlyStop \/ LaterStop \/ ProtocolNext
EarlyNext == EarlyOperatorStep \/ ExplorerStep \/ InspectorStep \/ DogStep \/ DroneStep

EarlySpec ==
    /\ Init /\ [][EarlyNext]_vars
    /\ WF_vars(EarlyOperatorStep)
    /\ WF_vars(ExplorerStep)
    /\ WF_vars(InspectorStep)
    /\ WF_vars(DogStep)

TypeOK ==
    /\ n_missions \in 1..MaxN
    /\ explorer.current_mission_id \in 0..MaxN
    /\ inspector.current_mission_id \in 0..MaxN
    /\ inspector.pc = "join" => dog.thread \in {"tail", "none"}
    /\ dog.orphans \in 0..MaxN
    /\ late \in -1..(MaxN - 1)

(* ------------------------------ claims -------------------------------- *)
\* Number of lists the inspection driver has taken from the queue.
Dequeued == Len(history.enqueued) - Len(queue)

\* C1: the finish action of _on_all_missions_finished (stamp finished_time, set
\* status FINISHED, emit the metrics) executes at most once in a run: only one of
\* the two drivers' onFinishAll calls enters the guarded block.
C1_FinishActionOnce == history.finish_count <= 1

\* C2: when the operation status is FINISHED, both drivers' start_finish_times
\* hold exactly N (start, finish) pairs, for every N >= 1.
C2_NPairsWhenFinished ==
    operation.status = FINISHED =>
        /\ Len(explorer.start_finish_times) = n_missions
        /\ Len(inspector.start_finish_times) = n_missions

\* C3: under the protocol-following operator and fair threads, every point that
\* is inserted into the registry is eventually marked inspected: whatever has been
\* inserted (entries are never removed), a later state has every entry inspected.
AllInspected == \A p \in DOMAIN all_points : all_points[p].inspected

C4_MissionsInOrder ==
    \A i \in 1..Len(history.enqueued) : history.enqueued[i] = i - 1

\* C5: once the inspection driver has started a routine for a dequeued list, its
\* current_mission_id is the mission id the exploration driver had at the put.
C5_InspectorMissionIsListMission ==
    inspector.list_mission # -1 => inspector.current_mission_id = inspector.list_mission

\* C6: the inspector's mission id never exceeds the explorer's.
C6_InspectorNeverAhead == inspector.current_mission_id <= explorer.current_mission_id

C6_Witness ==
    /\ inspector.current_mission_id = explorer.current_mission_id
    /\ inspector.current_mission_id >= 1

\* C7: at most N lists are ever put on the queue of capacity N, and the put of
\* the exploration driver never finds the queue full.
C7_AtMostNPutsNeverFull ==
    /\ Len(history.enqueued) <= n_missions
    /\ explorer.pc = "hand_off" => ~PutBlocks

C7_Witness ==
    /\ n_missions >= 2
    /\ Len(history.enqueued) = n_missions
    /\ Len(queue) = n_missions

\* C8: the k-th inspection phase is stamped as started only after the k-th
\* exploration phase has been stamped as finished and its list enqueued.
C8_InspectionStartsAfterHandOff ==
    /\ \A k \in 1..Len(inspector.start_finish_times) :
           /\ k <= Len(explorer.start_finish_times)
           /\ inspector.start_finish_times[k][1] >= explorer.start_finish_times[k][2]
    /\ inspector.start_time_current_mission # None =>
           LET k == Len(inspector.start_finish_times) + 1
           IN /\ k <= Len(explorer.start_finish_times)
              /\ inspector.start_time_current_mission >= explorer.start_finish_times[k][2]

C8_Witness ==
    /\ Len(inspector.start_finish_times) = 1
    /\ inspector.start_time_current_mission # None
    /\ Len(queue) = 0

\* C9: the inspection driver has at most one routine in flight: it is past its
\* wait only when on_finish has fired for every list it has dequeued, a movement
\* thread that has not yet fired on_finish belongs to the last dequeued list, and
\* inspectorDone is set only while the driver waits and only by the on_finish of
\* the routine it waits for.
C9_OneRoutineInFlight ==
    /\ inspector.pc # "wait" =>
           /\ Len(inspector.start_finish_times) = Dequeued
           /\ ~events.inspector_done
           /\ dog.thread # "moving"
    /\ inspector.pc = "wait" =>
           /\ Len(inspector.start_finish_times) \in {Dequeued - 1, Dequeued}
           /\ events.inspector_done <=> Len(inspector.start_finish_times) = Dequeued
           /\ dog.thread = "moving" <=> Len(inspector.start_finish_times) = Dequeued - 1

C9_Witness ==
    /\ inspector.pc = "wait"
    /\ events.inspector_done
    /\ Dequeued = 2
    /\ Len(queue) = 0

\* C10: a stop_inspection call made while the explorer is not RUNNING never
\* releases the wait of a later exploration phase.
C10_StopWhileIdleIsNoOp ==
    [][(explorer.pc = "wait_stop" /\ explorer'.pc = "hand_off") => ~history.stale_stop]_vars

\* C11: a next_mission call made while the exploration driver is RUNNING, or while
\* its current_mission_id >= N-1, leaves current_mission_id and the
\* start_next_exploration event as they were; any other call adds exactly one to
\* current_mission_id and sets the event.
C11_StartNextContract ==
    [][NextMission =>
          IF explorer.status = RUNNING \/ explorer.current_mission_id >= n_missions - 1
          THEN /\ explorer'.current_mission_id = explorer.current_mission_id
               /\ events'.start_next_exploration = events.start_next_exploration
          ELSE /\ explorer'.current_mission_id = explorer.current_mission_id + 1
               /\ events'.start_next_exploration]_vars

\* An accepted call has happened between two phases: the id is advanced and the
\* event is pending while the driver has not yet started the next phase.
C11_Witness ==
    /\ explorer.current_mission_id = 1
    /\ explorer.status = FINISHED
    /\ Len(explorer.start_finish_times) = 1
    /\ events.start_next_exploration
\* C12: in every reachable state both drivers' current_mission_id lie in 0..N-1,
\* and no step decreases either of them.
C12_MissionIdInRangeMonotonic ==
    /\ [](/\ explorer.current_mission_id \in 0..(n_missions - 1)
          /\ inspector.current_mission_id \in 0..(n_missions - 1))
    /\ [][/\ explorer'.current_mission_id >= explorer.current_mission_id
          /\ inspector'.current_mission_id >= inspector.current_mission_id]_vars

\* Both drivers have advanced to the last mission id of a run with two missions.
C12_Witness ==
    /\ n_missions = 2
    /\ explorer.current_mission_id = 1
    /\ inspector.current_mission_id = 1
\* Squared DRONE_VISIBILITY in grid cells, and the pairs of a list that respect it.
Visibility2 == (DRONE_VISIBILITY * GridPerMetre) * (DRONE_VISIBILITY * GridPerMetre)
FarFromAll(pts, p) == \A i \in 1..Len(pts) : Dist2(pts[i], p) >= Visibility2
PairwiseFar(pts) ==
    \A i, j \in 1..Len(pts) : i # j => Dist2(pts[i], pts[j]) >= Visibility2

\* C13: within an exploration phase a reported point is accepted iff it is at
\* distance >= DRONE_VISIBILITY of every point already accepted in the phase; a
\* rejected point changes neither the current list nor the registry; hence any
\* two points of the current list and of every enqueued list are at distance
\* >= DRONE_VISIBILITY.
C13_DedupeFirstWriter ==
    /\ PairwiseFar(explorer.points_current_mission)
    /\ \A k \in 1..Len(queue) : PairwiseFar(queue[k].points)
    /\ \A point \in RelPoints :
          LET abs == <<BasePosition(explorer.current_mission_id)[1] + point[1],
                       BasePosition(explorer.current_mission_id)[2] + point[2]>>
          IN (drone_active /\ detections < MaxDetections) =>
                IF FarFromAll(explorer.points_current_mission, abs)
                THEN ENABLED (/\ ExpOnPoint(point)
                              /\ explorer'.points_current_mission =
                                     Append(explorer.points_current_mission, abs)
                              /\ abs \in DOMAIN all_points'
                              /\ all_points'[abs].mission = explorer.current_mission_id)
                ELSE ~ENABLED (/\ ExpOnPoint(point)
                               /\ \/ explorer' # explorer
                                  \/ all_points' # all_points)

\* A list of two points at exactly DRONE_VISIBILITY of each other has been enqueued.
C13_Witness ==
    \E k \in 1..Len(queue) :
        /\ Len(queue[k].points) = 2
        /\ Dist2(queue[k].points[1], queue[k].points[2]) = Visibility2
\* C14: when the movement thread reports waypoint p, the inspection driver marks
\* the registry entry of p (inspected, inspection time) only if p is registered
\* under the inspector's current_mission_id, and then touches no other entry; if
\* p is absent or registered under another mission, the registry and the
\* temperature map stay as they were.
C14_InspectOnlyOwnMission ==
    [][DogReach =>
          LET p == dog.waypoints[dog.index]
          IN IF p \in DOMAIN all_points
                /\ all_points[p].mission = inspector.current_mission_id
             THEN /\ DOMAIN all_points' = DOMAIN all_points
                  /\ all_points'[p] = [all_points[p] EXCEPT !.inspected = TRUE,
                                                           !.inspected_time = clock]
                  /\ \A q \in DOMAIN all_points \ {p} : all_points'[q] = all_points[q]
             ELSE /\ all_points' = all_points
                  /\ points_temperatures' = points_temperatures]_vars

\* The inspector stands on a waypoint that is registered under another mission
\* than its own and has left it uninspected.
C14_Witness ==
    /\ dog.index > 1
    /\ dog.position \in DOMAIN all_points
    /\ all_points[dog.position].mission # inspector.current_mission_id
    /\ ~all_points[dog.position].inspected
\* C15: a registry entry, once created, stays in the registry and no later step
\* changes its mission id or its detection time or resets its inspected flag.
C15_EntryWrittenOnce ==
    [][\A p \in DOMAIN all_points :
          /\ p \in DOMAIN all_points'
          /\ all_points'[p].mission = all_points[p].mission
          /\ all_points'[p].detected_time = all_points[p].detected_time
          /\ all_points[p].inspected => all_points'[p].inspected]_vars
\* C16: every registry entry with inspected = TRUE has an entry in the temperature
\* map of the inspection driver, whatever get_telemetry() of the inspector agent
\* returns.
C16_InspectedHasTemperature ==
    \A p \in DOMAIN all_points : all_points[p].inspected => p \in DOMAIN points_temperatures
\* C17: once the operation status is FINISHED, no step writes the registry, the
\* temperature map or the start_finish_times of either driver.
C17_NoWriteAfterFinished ==
    [][operation.status = FINISHED =>
          /\ all_points' = all_points
          /\ points_temperatures' = points_temperatures
          /\ explorer'.start_finish_times = explorer.start_finish_times
          /\ inspector'.start_finish_times = inspector.start_finish_times]_vars
\* C18: with N >= 2, the protocol-following operator, fair threads and agents
\* that complete every routine, the operation status eventually becomes FINISHED.
C18_OperationFinishes == (n_missions >= 2) => <>(operation.status = FINISHED)
\* C19: after a stop_inspection issued right after start, before the first phase
\* has started, the signal is kept: mission 0 ends and its list is enqueued, the
\* inspection driver completes a routine, and (N >= 2) the next_mission that
\* follows makes the exploration driver start mission 1.
EarlyStopIssued ==
    /\ n_missions >= 2
    /\ operator.stops = 1
    /\ Len(explorer.start_finish_times) = 0

MissionOneStarted ==
    /\ explorer.current_mission_id >= 1
    /\ \/ explorer.status = RUNNING
       \/ Len(explorer.start_finish_times) >= 2

C19_EarlyStopKept ==
    EarlyStopIssued ~>
        (/\ Len(history.enqueued) >= 1
         /\ history.enqueued[1] = 0
         /\ Len(inspector.start_finish_times) >= 1
         /\ MissionOneStarted)
\* C20: a dequeued list, an empty one included, makes the inspection driver set
\* status RUNNING and start a routine of the agent on the planned path (the
\* empty path for the empty list); and the status of the inspection driver goes
\* to FINISHED only from RUNNING, through the agent's on_finish.
C20_EmptyListTraversal ==
    [][/\ InsStartRoutine =>
             /\ inspector'.status = RUNNING
             /\ dog'.thread = "moving"
             /\ dog'.index = 1
             /\ (Head(queue).points = <<>>) => (dog'.waypoints = <<>>)
       /\ (inspector.status # FINISHED /\ inspector'.status = FINISHED) =>
             /\ inspector.status = RUNNING
             /\ DogFinish]_vars
\* Number of occurrences of p in the list s.
Count(s, p) == Cardinality({i \in 1..Len(s) : s[i] = p})

\* s and t hold the same points the same number of times.
SameMultiset(s, t) ==
    /\ Len(s) = Len(t)
    /\ \A i \in 1..Len(s) : Count(s, s[i]) = Count(t, s[i])
    /\ \A i \in 1..Len(t) : Count(s, t[i]) = Count(t, t[i])

\* C21: what NearestNeighborPlanner.plan_path(start, P) returns is a permutation
\* of the multiset P: the same length, every point as many times as P lists it
\* (start is not inserted), and an empty P gives an empty result.
C21_PathIsPermutation ==
    planner.pc = "returned" =>
        /\ SameMultiset(planner.path, planner.points)
        /\ (planner.points = <<>> => planner.path = <<>>)

\* plan_path has returned for a list of three points with a duplicate, none of
\* them the start.
C21_Witness ==
    /\ planner.pc = "returned"
    /\ Len(planner.points) = 3
    /\ planner.points[1] = planner.points[3]
    /\ planner.points[1] # planner.points[2]
    /\ \A i \in 1..3 : planner.points[i] # planner.start

\* The points of P not placed before position i of the path: P less the
\* multiset of path[1..i-1].
NotYetPlaced(i) ==
    {p \in PlanPoints : Count(planner.points, p) > Count(SubSeq(planner.path, 1, i - 1), p)}

\* C22: every element of the result is at least Euclidean distance from its
\* predecessor (start for the first) among the points not yet placed, and
\* start = (0,0), P = [(3,0),(1,0),(2,0)] gives [(1,0),(2,0),(3,0)].
C22_EachStepNearest ==
    planner.pc = "returned" =>
        /\ \A i \in 1..Len(planner.path) :
              LET prev == IF i = 1 THEN planner.start ELSE planner.path[i - 1]
              IN /\ planner.path[i] \in NotYetPlaced(i)
                 /\ \A q \in NotYetPlaced(i) : Dist2(prev, planner.path[i]) <= Dist2(prev, q)
        /\ (planner.start = <<0, 0>> /\ planner.points = <<<<3, 0>>, <<1, 0>>, <<2, 0>>>>
              => planner.path = <<<<1, 0>>, <<2, 0>>, <<3, 0>>>>)

\* plan_path has returned for start = (0,0), P = [(3,0),(1,0),(2,0)].
C22_Witness ==
    /\ planner.pc = "returned"
    /\ planner.start = <<0, 0>>
    /\ planner.points = <<<<3, 0>>, <<1, 0>>, <<2, 0>>>>

\* The orderings of the list s.
Orderings(s) == {t \in [1..Len(s) -> {s[i] : i \in 1..Len(s)}] : SameMultiset(s, t)}

\* C23: the result depends on start and on the multiset of points only: every
\* other ordering of the same points gives the same visiting order.
C23_OrderInsignificant ==
    planner.pc = "returned" =>
        \A Q \in Orderings(planner.points) : plan_path(planner.start, Q) = planner.path

\* C24: for a non-empty P, whichever minimum-cost assignment the solver ends on,
\* ILPPlanner.plan_path returns a permutation of P: every point of P once.
C24_IlpPathIsPermutation ==
    (planner.pc = "returned" /\ planner.points # <<>>) =>
        SameMultiset(planner.path, planner.points)

\* The on_point callback of the waypoint just reached raised: the registry entry
\* of that waypoint is marked inspected for the current mission and no
\* temperature was stored for it.
RaisedAtLastWaypoint ==
    /\ inspector.pc = "wait"
    /\ dog.index > 1
    /\ LET p == dog.waypoints[dog.index - 1]
       IN /\ p \in DOMAIN all_points
          /\ all_points[p].inspected
          /\ all_points[p].mission = inspector.current_mission_id
          /\ p \notin DOMAIN points_temperatures

\* The inspection driver is past its wait on inspector_done with every waypoint
\* of the routine visited.
WaitReleasedAfterAllWaypoints ==
    /\ inspector.pc \in {"loop", "join"}
    /\ dog.index > Len(dog.waypoints)

LogPositions(ev, t) ==
    {i \in 1..Len(agent.log) : agent.log[i].ev = ev /\ agent.log[i].thread = t}

\* The points of the on_point calls of movement thread t, in the order of the calls.
PointsFired(t) ==
    LET fired == SelectSeq(agent.log, LAMBDA e : e.ev = "on_point" /\ e.thread = t)
    IN [i \in 1..Len(fired) |-> fired[i].point]

\* ps lists elements of W in the order W has them.
InPathOrder(ps, W) ==
    \E f \in [1..Len(ps) -> 1..Len(W)] :
        /\ \A i \in 1..Len(ps) : W[f[i]] = ps[i]
        /\ \A i, j \in 1..Len(ps) : i < j => f[i] < f[j]

StopCalled(ev) ==
    /\ Len(agent'.log) > Len(agent.log)
    /\ agent'.log[Len(agent.log) + 1].ev = ev

\* C27: stop is idempotent for both agents: stop_inspection on a RobotDogSimulator
\* that is not running and stop_routine on a Drone that is not active change no
\* field of the agent and fire no callback (nothing but the record of the call
\* itself is added), so a second stop right after a first one changes nothing.
C27_StopIdempotent ==
    [][/\ (StopCalled("stop_inspection") /\ ~agent.running) =>
             agent' = [agent EXCEPT !.calls = @ + 1,
                          !.log = Append(@, LogEntry("stop_inspection", 0, <<0, 0>>))]
       /\ (StopCalled("stop_routine") /\ ~agent.active) =>
             agent' = [agent EXCEPT !.calls = @ + 1,
                          !.log = Append(@, LogEntry("stop_routine", 0, <<0, 0>>))]]_vars

\* The robot dog was started, stopped (its thread joined) and stopped again:
\* the last call is a stop on an agent that is not running.
C27_Witness ==
    /\ Len(agent.threads) = 1
    /\ agent.calls = 3
    /\ agent.client = "idle"
    /\ Len(agent.log) >= 2
    /\ agent.log[Len(agent.log)].ev = "stop_inspection"
    /\ \E i \in 1..(Len(agent.log) - 1) : agent.log[i].ev = "stop_inspection"

\* C28: when InspectionController.run dequeues None, it shuts down: it leaves its
\* loop (towards its completion callback) without starting an inspector routine
\* and without an exception ending the driver thread.
C28_NoneMeansShutdown ==
    [][(inspector.pc = "loop" /\ queue # <<>> /\ Head(queue) = NoneItem /\ queue' = Tail(queue))
         => (inspector'.pc \in {"callback", "done"} /\ dog' = dog)]_vars

\* The datagram [id, size of payload] is one the listener drops: its id is
\* neither BATTERY nor POSE, or its payload is shorter than the struct of its id.
Dropped(d) ==
    \/ d.id \notin {PACKET_ID_BATTERY, PACKET_ID_POSE}
    \/ d.id = PACKET_ID_BATTERY /\ d.size < STRUCT_BATTERY_size
    \/ d.id = PACKET_ID_POSE /\ d.size < STRUCT_POSE_size

\* C29: a datagram with an unknown packet id, or a BATTERY or POSE datagram with a
\* payload shorter than its struct, leaves the stored snapshot as it was, and the
\* listener goes on receiving.
C29_BadDatagramDropped ==
    [][(telemetry'.last # telemetry.last /\ Dropped(telemetry'.last)) =>
          /\ telemetry'.voltage = telemetry.voltage
          /\ telemetry'.pose = telemetry.pose
          /\ telemetry'.listening /\ telemetry'.running]_vars

\* A snapshot that holds a received voltage and a received pose, just after a
\* POSE datagram one byte short of its struct.
C29_Witness ==
    /\ telemetry.last = [id |-> PACKET_ID_POSE, size |-> STRUCT_POSE_size - 1]
    /\ telemetry.voltage # 0
    /\ telemetry.pose # <<0, 0, 0, 0, 0, 0>>
    /\ telemetry.listening

\* C30: no registry write is lost: between the read and the store of an
\* InspectionController._on_point no ExplorationController._on_point writes the
\* same key, so the entry the inspector replaces is the one it read.
C30_NoLostRegistryWrite ==
    [][(pending.pc = "write" /\ pending'.pc = "none")
         => all_points[pending.point] = pending.entry]_vars

\* The enqueued lists that hold the point p, by their position in the order of
\* the puts, and whether the list of the phase under way holds it.
HandedWith(p) ==
    {k \in 1..Len(history.handed) : Count(history.handed[k], p) > 0}

InCurrentList(p) == Count(explorer.points_current_mission, p) > 0

\* C31: every point of the registry is in exactly one enqueued list, once, the
\* list put at the end of the exploration phase (mission id) in which it was
\* accepted, or it is still in the list of the phase under way, whose hand-off
\* is ahead, and in no enqueued list: none left out, none handed over twice.
C31_EachPointHandedOnce ==
    \A p \in DOMAIN all_points :
        IF InCurrentList(p)
        THEN /\ explorer.pc \in {"wait_stop", "hand_off"}
             /\ Count(explorer.points_current_mission, p) = 1
             /\ HandedWith(p) = {}
        ELSE /\ Cardinality(HandedWith(p)) = 1
             /\ \A k \in HandedWith(p) :
                   /\ Count(history.handed[k], p) = 1
                   /\ history.enqueued[k] = all_points[p].mission

\* C32: every routine start of the inspection driver finds the robot dog idle,
\* so that the dequeued list gets a routine of its own on its planned path; while
\* the movement thread of that routine has not fired on_finish, _running stays
\* True (no trailing "_running = False" of an earlier thread cancels it); and
\* on_finish has fired once for every dequeued list but the one under way.
C32_StartFindsDogIdle ==
    /\ [][InsStartRoutine =>
             /\ ~dog.running
             /\ dog'.running
             /\ dog'.thread = "moving"
             /\ dog'.index = 1
             /\ dog'.waypoints = plan_path(dog.position, Head(queue).points)]_vars
    /\ [](dog.thread = "moving" => dog.running)
    /\ [](Len(inspector.start_finish_times) =
             Dequeued - (IF dog.thread = "moving" THEN 1 ELSE 0))

\* The frames in the queue q.
FramesIn(q) == {q[i] : i \in 1..Len(q)}

\* C33: AFrameConsumer.enqueue(fwt) never blocks (inside enqueue the matcher always
\* has a step to take, and it makes at most two put attempts), the queue never
\* holds more than maxsize frames, and when enqueue returns fwt is in the queue,
\* also while the consumer thread takes frames off it.
C33_EnqueueDropsOldest ==
    /\ [](frames.pc # "idle" => ENABLED (FramePutNowait \/ FrameGetNowait))
    /\ [](frames.attempts <= 2)
    /\ [](Len(frames.queue) <= frames.maxsize)
    /\ [][(frames.pc # "idle" /\ frames'.pc = "idle") =>
             frames.fwt \in FramesIn(frames'.queue)]_vars

\* C34: whenever DroneTelemetry._running is True a listener thread is alive, and a
\* start() called when no listener thread is alive (the last one has exited on a
\* socket error) launches a new listener.
C34_RunningMeansListening ==
    /\ [](telemetry.running => telemetry.listening)
    /\ [][(telemetry'.starts = telemetry.starts + 1 /\ ~telemetry.listening)
             => telemetry'.listening]_vars

====
